---- MODULE Spec2Model ----
(***************************************************************************)
(* Model of nodes/Imap/operations/email/functions/EmailGetList.ts: the     *)
(* "Get Many" operation of the IMAP node.                                  *)
(*                                                                         *)
(*   Spec      one listing (executeImapAction) against a mail store: open  *)
(*             the mailbox, build the fetch query, drain the bulk fetch,   *)
(*             then per message analyse the body structure, download the   *)
(*             text / HTML part and push the record.                       *)
(*   TreeSpec  the pure part: getEmailPartsInfoRecursive and the           *)
(*             classification of lines 174-216 applied to every body       *)
(*             structure of at most MaxNodes nodes.                        *)
(***************************************************************************)
EXTENDS Integers, Sequences, FiniteSets, TLC

VARIABLES
  \* ---- TreeSpec: one body structure, the walker's and the classifier's results
  bodyStructure,   \* the input tree, or NoBodyStructure
  partsInfo,       \* result of getEmailPartsInfoRecursive(bodyStructure)
  analysis,        \* result of the classification (lines 174-216)
  tpc,             \* "input" | "walked" | "classified"
  \* ---- Spec: the mail store
  mailbox,         \* the messages the search matches, in the order the fetch yields them
  \* ---- Spec: executeImapAction
  includeParts,    \* node parameter 'includeParts'
  pc,              \* position in executeImapAction
  fetchQuery,      \* the FetchQueryObject: the set of fields set to true
  requests,        \* every request issued on the connection, with its status
  emailsList,      \* line 161
  idx,             \* position of the for-of loop of line 168 (1-based)
  item_json,       \* line 170
  textPartId,      \* line 174
  htmlPartId,      \* line 175
  cur,             \* which content the download in progress is for
  stream,          \* the Readable of the download in progress, and streamToString's chunks
  returnData,      \* line 120
  outcome,         \* what the caller of executeImapAction gets
  \* ---- CancelSpec: the host
  cancel           \* whether the host has asked to stop, and the iterations begun by then

treeVars == <<bodyStructure, partsInfo, analysis, tpc>>
listVars == <<cancel, mailbox, includeParts, pc, fetchQuery, requests, emailsList, idx,
              item_json, textPartId, htmlPartId, cur, stream, returnData, outcome>>
vars == <<treeVars, listVars>>

(***************************************************************************)
(* Bounds                                                                  *)
(***************************************************************************)
MaxNodes == 3      \* nodes of a body structure in TreeSpec
MaxMsgs == 2       \* messages the bulk fetch yields in Spec
MaxChunk == 2      \* bytes per 'data' event of a download stream

(***************************************************************************)
(* EmailParts (lines 8-15)                                                 *)
(***************************************************************************)
EmailParts ==
  {"bodyStructure", "flags", "size", "attachmentsInfo", "textContent", "htmlContent"}

null == "<null>"
undefined == "<undefined>"

\* JavaScript truthiness of a part id (string | null): lines 224, 230
Truthy(v) == v # null /\ v # undefined /\ v # ""

(***************************************************************************)
(* Body structures as imapflow delivers them.  A node is a record; the     *)
(* optional keys of the JavaScript object are modelled by hasSize ("size"  *)
(* in node), disposition = NoDisposition ("disposition" not in node) and   *)
(* childNodes = <<>> (no childNodes key: the library attaches childNodes   *)
(* only to a node that has at least one child).                            *)
(***************************************************************************)
NoDisposition == "<no disposition>"
NoBodyStructure == [absent |-> TRUE]

Types == {"text/plain", "text/html", "application/pdf"}
Dispositions == {NoDisposition, "attachment"}

Digits == <<"1", "2", "3", "4", "5", "6", "7", "8", "9">>

\* the IMAP part number of the node at `path`: <<1, 2>> is "1.2"
RECURSIVE PartOf(_)
PartOf(path) ==
  IF Len(path) = 0 THEN ""
  ELSE IF Len(path) = 1 THEN Digits[path[1]]
  ELSE PartOf(SubSeq(path, 1, Len(path) - 1)) \o "." \o Digits[path[Len(path)]]

EncodingOf(type) == IF type = "application/pdf" THEN "base64" ELSE "7bit"

SizeAt(path) == IF Len(path) = 0 THEN 500 ELSE 10 * Len(path) + path[Len(path)]

Node(path, type, hasSize, disposition, kids) ==
  [part |-> PartOf(path), type |-> type, encoding |-> EncodingOf(type),
   hasSize |-> hasSize, size |-> SizeAt(path),
   disposition |-> disposition,
   filename |-> IF disposition = "attachment" THEN "file-" \o PartOf(path) ELSE undefined,
   childNodes |-> kids]

\* the nodes at `path` with each of the given child lists, and the lists made of
\* one of the given trees followed by one of the given lists
NodesOver(path, forests) ==
  { Node(path, a[1], a[2], a[3], kids) :
      kids \in forests, a \in Types \X BOOLEAN \X Dispositions }
Prepend(trees, forests) == { <<t>> \o f : t \in trees, f \in forests }

\* every tree of exactly n nodes rooted at `path`, and every list of trees of
\* exactly n nodes in all whose first tree is child number k of `path`
RECURSIVE TreesOfSize(_, _), ForestsOfSize(_, _, _), ForestsFrom(_, _, _, _)
TreesOfSize(n, path) == NodesOver(path, ForestsOfSize(n - 1, path, 1))
ForestsOfSize(n, path, k) ==
  IF n = 0 THEN {<<>>} ELSE ForestsFrom(n, path, k, 1)
\* the lists of ForestsOfSize(n, path, k) whose first tree has at least j nodes
ForestsFrom(n, path, k, j) ==
  IF j > n THEN {}
  ELSE Prepend(TreesOfSize(j, Append(path, k)), ForestsOfSize(n - j, path, k + 1))
       \cup ForestsFrom(n, path, k, j + 1)

\* every tree of at most n nodes
RECURSIVE Trees(_)
Trees(n) == IF n = 0 THEN {} ELSE TreesOfSize(n, <<>>) \cup Trees(n - 1)

BodyStructures == Trees(MaxNodes) \cup {NoBodyStructure}

(***************************************************************************)
(* getEmailPartsInfoRecursive (lines 41-71)                                *)
(***************************************************************************)
\* `if (x.childNodes)`: lines 44, 64, 185
HasChildNodes(n) == Len(n.childNodes) > 0

\* lines 48-59: the EmailPartInfo built for a child node
PartInfoOf(childNode) ==
  [partId |-> childNode.part, type |-> childNode.type,
   encoding |-> childNode.encoding, size |-> childNode.size]
  @@ (IF childNode.disposition # NoDisposition
      THEN [disposition |-> childNode.disposition] ELSE <<>>)
  @@ (IF childNode.disposition = "attachment"
      THEN [filename |-> childNode.filename] ELSE <<>>)

\* EmitChildNode as a walker that emits true leaves only
EmitChildNodeLeavesOnly(childNode) ==
  IF childNode.hasSize /\ Len(childNode.childNodes) = 0
  THEN <<PartInfoOf(childNode)>> ELSE <<>>

\* lines 47-61: pushed only if "size" is present
EmitChildNode(childNode) ==
  IF childNode.hasSize THEN <<PartInfoOf(childNode)>> ELSE <<>>

RECURSIVE getEmailPartsInfoRecursive(_), WalkChildNodes(_, _), WalkChildNodesDescendFirst(_, _)
\* WalkChildNodes with the recursion of line 66 placed before the push of line 60
WalkChildNodesDescendFirst(childNodes, k) ==
  IF k > Len(childNodes) THEN <<>>
  ELSE (IF HasChildNodes(childNodes[k])
        THEN getEmailPartsInfoRecursive(childNodes[k]) ELSE <<>>)
       \o EmitChildNode(childNodes[k])
       \o WalkChildNodesDescendFirst(childNodes, k + 1)
\* lines 45-68: the for-of loop from child number k on
WalkChildNodes(childNodes, k) ==
  IF k > Len(childNodes) THEN <<>>
  ELSE EmitChildNode(childNodes[k])
       \o (IF HasChildNodes(childNodes[k])
           THEN getEmailPartsInfoRecursive(childNodes[k]) ELSE <<>>)
       \o WalkChildNodes(childNodes, k + 1)
getEmailPartsInfoRecursive(bs) ==
  IF HasChildNodes(bs) THEN WalkChildNodes(bs.childNodes, 1) ELSE <<>>

(***************************************************************************)
(* The classification of executeImapAction (lines 174-216)                 *)
(***************************************************************************)
IsAttachment(partInfo) ==
  "disposition" \in DOMAIN partInfo /\ partInfo["disposition"] = "attachment"

\* lines 190-196
AttachmentInfoOf(partInfo) ==
  [partId |-> partInfo["partId"],
   filename |-> IF "filename" \in DOMAIN partInfo THEN partInfo["filename"] ELSE undefined,
   type |-> partInfo["type"], encoding |-> partInfo["encoding"],
   size |-> partInfo["size"]]

\* ClassifyPart with the first match kept and without the else of line 197
ClassifyPartFirstWins(acc, partInfo) ==
  [acc EXCEPT
     !.attachmentsInfo = IF IsAttachment(partInfo)
                         THEN Append(@, AttachmentInfoOf(partInfo)) ELSE @,
     !.textPartId = IF partInfo["type"] = "text/plain" /\ @ = null
                    THEN partInfo["partId"] ELSE @,
     !.htmlPartId = IF partInfo["type"] = "text/html" /\ @ = null
                    THEN partInfo["partId"] ELSE @]

\* lines 189-204: the body of the loop over partsInfo
ClassifyPart(acc, partInfo) ==
  IF IsAttachment(partInfo)
  THEN [acc EXCEPT !.attachmentsInfo = Append(@, AttachmentInfoOf(partInfo))]
  ELSE [acc EXCEPT
          !.textPartId = IF partInfo["type"] = "text/plain" THEN partInfo["partId"] ELSE @,
          !.htmlPartId = IF partInfo["type"] = "text/html" THEN partInfo["partId"] ELSE @]

RECURSIVE ClassifyParts(_, _, _)
ClassifyParts(parts, k, acc) ==
  IF k > Len(parts) THEN acc
  ELSE ClassifyParts(parts, k + 1, ClassifyPart(acc, parts[k]))

\* lines 174-176
NothingFound ==
  [textPartId |-> null, htmlPartId |-> null, attachmentsInfo |-> <<>>, walkerCalls |-> 0]

\* ClassifySinglePart addressing the sole part by the node's own part number
ClassifySinglePartByPart(bs) ==
  [textPartId |-> IF bs.type = "text/plain" THEN bs.part ELSE null,
   htmlPartId |-> IF bs.type = "text/html" THEN bs.part ELSE null,
   attachmentsInfo |-> <<>>, walkerCalls |-> 0]

\* lines 207-213
ClassifySinglePart(bs) ==
  [NothingFound EXCEPT
     !.textPartId = IF bs.type = "text/plain" THEN "TEXT" ELSE @,
     !.htmlPartId = IF bs.type = "text/html" THEN "TEXT" ELSE @]

\* lines 183-215; walkerCalls counts the calls of line 187
AnalyzeBodyStructure(bs) ==
  IF bs = NoBodyStructure THEN NothingFound
  ELSE IF HasChildNodes(bs)
       THEN ClassifyParts(getEmailPartsInfoRecursive(bs), 1,
                          [NothingFound EXCEPT !.walkerCalls = 1])
       ELSE ClassifySinglePart(bs)

(***************************************************************************)
(* TreeSpec: the walker and the classification on every bounded tree       *)
(***************************************************************************)
\* the host has not asked the execution to stop
NotRequested == [requested |-> FALSE, begun |-> 0]

ListIdle ==
  /\ cancel = NotRequested
  /\ mailbox = <<>>
  /\ includeParts = {}
  /\ pc = "idle"
  /\ fetchQuery = {}
  /\ requests = <<>>
  /\ emailsList = <<>>
  /\ idx = 0
  /\ item_json = <<>>
  /\ textPartId = null
  /\ htmlPartId = null
  /\ cur = "none"
  /\ stream = <<>>
  /\ returnData = <<>>
  /\ outcome = [state |-> "running"]

TreeInit ==
  /\ bodyStructure \in BodyStructures
  /\ partsInfo = <<>>
  /\ analysis = NothingFound
  /\ tpc = "input"
  /\ ListIdle

\* a call getEmailPartsInfoRecursive(context, bodyStructure)
Walk ==
  /\ tpc = "input"
  /\ bodyStructure # NoBodyStructure
  /\ partsInfo' = getEmailPartsInfoRecursive(bodyStructure)
  /\ tpc' = "walked"
  /\ UNCHANGED <<bodyStructure, analysis, listVars>>

\* lines 174-216 with analyzeBodyStructure true
Classify ==
  /\ tpc = "input"
  /\ analysis' = AnalyzeBodyStructure(bodyStructure)
  /\ tpc' = "classified"
  /\ UNCHANGED <<bodyStructure, partsInfo, listVars>>

TreeNext == Walk \/ Classify

TreeSpec == TreeInit /\ [][TreeNext]_vars

(***************************************************************************)
(* The mail store: messages, their bodies, and the fetch library's view    *)
(***************************************************************************)
DecimalDigits == <<"0", "1", "2", "3", "4", "5", "6", "7", "8", "9">>

\* Number.prototype.toString(): line 225, 232
RECURSIVE NatToString(_)
NatToString(n) ==
  IF n < 10 THEN DecimalDigits[n + 1]
  ELSE NatToString(n \div 10) \o DecimalDigits[(n % 10) + 1]

\* the body structures of the messages of Spec, each with the bytes of its text parts
SinglePlain ==
  [bodyStructure |-> Node(<<>>, "text/plain", TRUE, NoDisposition, <<>>),
   bodies |-> ("TEXT" :> <<195, 169>>)]
Alternative ==
  [bodyStructure |->
     Node(<<>>, "multipart/alternative", FALSE, NoDisposition,
          << Node(<<1>>, "text/plain", TRUE, NoDisposition, <<>>),
             Node(<<2>>, "text/html", TRUE, NoDisposition, <<>>) >>),
   bodies |-> ("1" :> <<105>>) @@ ("2" :> <<255>>)]
MixedHtml ==
  [bodyStructure |->
     Node(<<>>, "multipart/mixed", FALSE, NoDisposition,
          << Node(<<1>>, "text/html", TRUE, NoDisposition, <<>>),
             Node(<<2>>, "application/pdf", TRUE, "attachment", <<>>) >>),
   bodies |-> ("1" :> <<60, 62>>)]
SinglePdf ==
  [bodyStructure |-> Node(<<>>, "application/pdf", TRUE, NoDisposition, <<>>),
   bodies |-> <<>>]
Samples == {SinglePlain, Alternative, MixedHtml, SinglePdf}

\* uids differ from sequence numbers
UidAt(k) == 10 * k + 2

\* message number k of the mailbox; every body starts with a byte naming the message;
\* the odd-numbered messages have not been read yet
Message(k, sample) ==
  [seq |-> k, uid |-> UidAt(k), envelope |-> [subject |-> "message " \o NatToString(k)],
   flags |-> IF k % 2 = 1 THEN {} ELSE {"\\Seen"}, size |-> 1000 + k,
   bodyStructure |-> sample.bodyStructure,
   bodies |-> [p \in DOMAIN sample.bodies |-> <<48 + k>> \o sample.bodies[p]]]

Mailboxes ==
  UNION { { [k \in 1..n |-> Message(k, choice[k])] : choice \in [1..n -> Samples] }
          : n \in 0..MaxMsgs }

\* what client.fetch yields for a message: seq, and the fields the query asks for
FetchedEmail(message, query) ==
  [f \in query \cup {"seq"} |-> message[f]]

\* the bytes client.download streams: the part of the message `range` names, by uid
\* when options.uid is set and by sequence number otherwise; <<>> when there is none
DownloadSource(range, part, byUid) ==
  LET hits == { k \in DOMAIN mailbox :
                  NatToString(IF byUid THEN mailbox[k].uid ELSE mailbox[k].seq) = range }
  IN IF hits = {} THEN <<>>
     ELSE LET m == mailbox[CHOOSE k \in hits : TRUE]
          IN IF part \in DOMAIN m.bodies THEN m.bodies[part] ELSE <<>>

\* the mail store after a part of the message `range` names has been downloaded: a
\* mailbox opened read-only is left as it is, in any other the message is marked read
MailStoreAfterDownload(range, byUid) ==
  IF requests[1].readOnly THEN mailbox
  ELSE [k \in DOMAIN mailbox |->
          IF NatToString(IF byUid THEN mailbox[k].uid ELSE mailbox[k].seq) = range
          THEN [mailbox[k] EXCEPT !.flags = @ \cup {"\\Seen"}]
          ELSE mailbox[k]]

Errors == {"ECONNRESET", "ETIMEOUT"}

(***************************************************************************)
(* streamToString (lines 27-38)                                            *)
(***************************************************************************)
\* Buffer.concat(chunks): line 34
RECURSIVE BufferConcat(_)
BufferConcat(chunks) ==
  IF chunks = <<>> THEN <<>> ELSE Head(chunks) \o BufferConcat(Tail(chunks))

\* buffer.toString('utf8'): the code points of the text; one- and two-byte
\* sequences are decoded, any other byte becomes U+FFFD
RECURSIVE Utf8Decode(_)
Utf8Decode(b) ==
  IF b = <<>> THEN <<>>
  ELSE IF b[1] < 128 THEN <<b[1]>> \o Utf8Decode(Tail(b))
  ELSE IF b[1] \in 194..223 /\ Len(b) >= 2 /\ b[2] \in 128..191
       THEN <<(b[1] - 192) * 64 + (b[2] - 128)>> \o Utf8Decode(SubSeq(b, 3, Len(b)))
  ELSE <<65533>> \o Utf8Decode(Tail(b))

\* streamToString decoding every chunk on its own and joining the strings
RECURSIVE streamToStringPerChunk(_)
streamToStringPerChunk(chunks) ==
  IF chunks = <<>> THEN <<>>
  ELSE Utf8Decode(Head(chunks)) \o streamToStringPerChunk(Tail(chunks))

\* line 34: the value the promise resolves with
streamToString(chunks) == Utf8Decode(BufferConcat(chunks))

(***************************************************************************)
(* executeImapAction (lines 119-245)                                       *)
(***************************************************************************)
ContentParts == {"attachmentsInfo", "textContent", "htmlContent"}

\* BuildFetchQuery without lines 150-156
BuildFetchQueryNoContentClause(parts) ==
  {"uid", "envelope"}
  \cup (IF "bodyStructure" \in parts THEN {"bodyStructure"} ELSE {})
  \cup (IF "flags" \in parts THEN {"flags"} ELSE {})
  \cup (IF "size" \in parts THEN {"size"} ELSE {})
  \cup (IF "attachmentsInfo" \in parts THEN {"bodyStructure"} ELSE {})

\* BuildFetchQuery asking for the body structure in every case
BuildFetchQueryAlwaysStructure(parts) ==
  {"uid", "envelope", "bodyStructure"}
  \cup (IF "flags" \in parts THEN {"flags"} ELSE {})
  \cup (IF "size" \in parts THEN {"size"} ELSE {})

\* lines 131-156
BuildFetchQuery(parts) ==
  {"uid", "envelope"}
  \cup (IF "bodyStructure" \in parts THEN {"bodyStructure"} ELSE {})
  \cup (IF "flags" \in parts THEN {"flags"} ELSE {})
  \cup (IF "size" \in parts THEN {"size"} ELSE {})
  \cup (IF "attachmentsInfo" \in parts THEN {"bodyStructure"} ELSE {})
  \cup (IF "textContent" \in parts \/ "htmlContent" \in parts
        THEN {"bodyStructure"} ELSE {})

\* JsonClone leaving out a body structure fetched without the bodyStructure flag
JsonCloneOwnFlagsOnly(email) ==
  [f \in DOMAIN email \ (IF "bodyStructure" \in includeParts THEN {} ELSE {"bodyStructure"})
     |-> IF f = "flags" THEN <<>> ELSE email[f]]

\* JSON.parse(JSON.stringify(email)), line 170: plain values are copied, the
\* flags (a Set) come back as an empty object
JsonClone(email) ==
  [f \in DOMAIN email |-> IF f = "flags" THEN <<>> ELSE email[f]]

\* a request on the connection, as issued
Request(kind, n) ==
  [kind |-> kind, status |-> "inflight", error |-> "none", msg |-> n,
   readOnly |-> FALSE, query |-> {}, range |-> "", part |-> "", byUid |-> FALSE,
   content |-> "none"]

LastRequest == requests[Len(requests)]
Settle(status, error) ==
  [requests EXCEPT ![Len(requests)].status = status, ![Len(requests)].error = error]

ListInit ==
  /\ bodyStructure = NoBodyStructure
  /\ partsInfo = <<>>
  /\ analysis = NothingFound
  /\ tpc = "off"
  /\ mailbox \in Mailboxes
  /\ includeParts \in SUBSET EmailParts
  /\ pc = "start"
  /\ fetchQuery = {}
  /\ requests = <<>>
  /\ emailsList = <<>>
  /\ idx = 0
  /\ item_json = <<>>
  /\ textPartId = null
  /\ htmlPartId = null
  /\ cur = "none"
  /\ stream = <<>>
  /\ returnData = <<>>
  /\ outcome = [state |-> "running"]
  /\ cancel = NotRequested

\* Fail as a handler that swallows the error and returns what was assembled
FailReturningPartial(e) ==
  /\ requests' = Settle("failed", e)
  /\ outcome' = [state |-> "returned", value |-> returnData]
  /\ pc' = "done"
  /\ UNCHANGED <<treeVars, cancel, mailbox, includeParts, fetchQuery, emailsList, idx,
                 item_json, textPartId, htmlPartId, cur, stream, returnData>>

\* an awaited request rejects with e: nothing in lines 119-245 catches, so the
\* promise of executeImapAction rejects with e
Fail(e) ==
  /\ requests' = Settle("failed", e)
  /\ outcome' = [state |-> "rejected", error |-> e]
  /\ pc' = "failed"
  /\ UNCHANGED <<treeVars, cancel, mailbox, includeParts, fetchQuery, emailsList, idx,
                 item_json, textPartId, htmlPartId, cur, stream, returnData>>

\* line 126: await client.mailboxOpen(mailboxPath, { readOnly: true })
\* the mailbox opened without the readOnly option
MailboxOpenReadWrite ==
  /\ pc = "start"
  /\ requests' = Append(requests, Request("mailboxOpen", 0))
  /\ pc' = "opening"
  /\ UNCHANGED <<treeVars, cancel, mailbox, includeParts, fetchQuery, emailsList, idx,
                 item_json, textPartId, htmlPartId, cur, stream, returnData, outcome>>

MailboxOpen ==
  /\ pc = "start"
  /\ requests' = Append(requests, [Request("mailboxOpen", 0) EXCEPT !.readOnly = TRUE])
  /\ pc' = "opening"
  /\ UNCHANGED <<treeVars, cancel, mailbox, includeParts, fetchQuery, emailsList, idx,
                 item_json, textPartId, htmlPartId, cur, stream, returnData, outcome>>

MailboxOpenFails ==
  /\ pc = "opening"
  /\ \E e \in Errors : Fail(e)

\* lines 126-162: the open resolves, the query is built, client.fetch is called
StartFetch ==
  /\ pc = "opening"
  /\ fetchQuery' = BuildFetchQuery(includeParts)
  /\ requests' = Append(Settle("done", "none"),
                        [Request("fetch", 0) EXCEPT !.query = BuildFetchQuery(includeParts)])
  /\ pc' = "fetching"
  /\ UNCHANGED <<treeVars, cancel, mailbox, includeParts, emailsList, idx,
                 item_json, textPartId, htmlPartId, cur, stream, returnData, outcome>>

\* lines 162-164: the fetch yields the next message, which is pushed
FetchYield ==
  /\ pc = "fetching"
  /\ Len(emailsList) < Len(mailbox)
  /\ emailsList' = Append(emailsList, FetchedEmail(mailbox[Len(emailsList) + 1], fetchQuery))
  /\ UNCHANGED <<treeVars, cancel, mailbox, includeParts, pc, fetchQuery, requests, idx,
                 item_json, textPartId, htmlPartId, cur, stream, returnData, outcome>>

FetchFails ==
  /\ pc = "fetching"
  /\ \E e \in Errors : Fail(e)

\* FetchEnds as a loop that goes on to process as soon as one message is buffered,
\* with the fetch still running
FetchEndsEarly ==
  /\ pc = "fetching"
  /\ Len(emailsList) >= 1
  /\ idx' = 1
  /\ pc' = "loop"
  /\ UNCHANGED <<treeVars, cancel, mailbox, includeParts, fetchQuery, requests, emailsList,
                 item_json, textPartId, htmlPartId, cur, stream, returnData, outcome>>

\* line 164: the for-await loop ends when the fetch has nothing more to yield
FetchEnds ==
  /\ pc = "fetching"
  /\ Len(emailsList) = Len(mailbox)
  /\ requests' = Settle("done", "none")
  /\ idx' = 1
  /\ pc' = "loop"
  /\ UNCHANGED <<treeVars, cancel, mailbox, includeParts, fetchQuery, emailsList,
                 item_json, textPartId, htmlPartId, cur, stream, returnData, outcome>>

\* line 172
analyzeBodyStructure == includeParts \cap ContentParts # {}

\* line 181: email.bodyStructure
BodyStructureOf(email) ==
  IF "bodyStructure" \in DOMAIN email THEN email["bodyStructure"] ELSE NoBodyStructure

\* BeginEmail creating the three derived fields up front, null until filled
BeginEmailWithPlaceholders ==
  /\ pc = "loop"
  /\ idx <= Len(emailsList)
  /\ LET email == emailsList[idx]
         found == IF analyzeBodyStructure
                  THEN AnalyzeBodyStructure(BodyStructureOf(email)) ELSE NothingFound
     IN /\ textPartId' = found.textPartId
        /\ htmlPartId' = found.htmlPartId
        /\ item_json' = (IF "attachmentsInfo" \in includeParts
                         THEN "attachmentsInfo" :> found.attachmentsInfo ELSE <<>>)
                        @@ [f \in ContentParts |-> null]
                        @@ JsonClone(email)
  /\ pc' = "text"
  /\ UNCHANGED <<treeVars, cancel, mailbox, includeParts, fetchQuery, requests, emailsList, idx,
                 cur, stream, returnData, outcome>>

\* lines 168-220: the next email of the list: clone, analysis, attachmentsInfo
BeginEmail ==
  /\ pc = "loop"
  /\ idx <= Len(emailsList)
  /\ LET email == emailsList[idx]
         found == IF analyzeBodyStructure
                  THEN AnalyzeBodyStructure(BodyStructureOf(email)) ELSE NothingFound
     IN /\ textPartId' = found.textPartId
        /\ htmlPartId' = found.htmlPartId
        /\ item_json' = (IF "attachmentsInfo" \in includeParts
                         THEN "attachmentsInfo" :> found.attachmentsInfo ELSE <<>>)
                        @@ JsonClone(email)
  /\ pc' = "text"
  /\ UNCHANGED <<treeVars, cancel, mailbox, includeParts, fetchQuery, requests, emailsList, idx,
                 cur, stream, returnData, outcome>>

\* a download addressed by the message's sequence number
DownloadRequestBySeq(content, partId) ==
  [Request("download", idx) EXCEPT
     !.range = NatToString(idx), !.part = partId,
     !.byUid = FALSE, !.content = content]

\* client.download(email.uid.toString(), partId, { uid: true }): lines 225, 232
DownloadRequest(content, partId) ==
  [Request("download", idx) EXCEPT
     !.range = NatToString(emailsList[idx]["uid"]), !.part = partId,
     !.byUid = TRUE, !.content = content]

\* lines 224-227
IssueTextDownload ==
  /\ pc = "text"
  /\ "textContent" \in includeParts /\ Truthy(textPartId)
  /\ requests' = Append(requests, DownloadRequest("textContent", textPartId))
  /\ cur' = "textContent"
  /\ pc' = "download"
  /\ UNCHANGED <<treeVars, cancel, mailbox, includeParts, fetchQuery, emailsList, idx,
                 item_json, textPartId, htmlPartId, stream, returnData, outcome>>

\* line 224 false
SkipText ==
  /\ pc = "text"
  /\ ~("textContent" \in includeParts /\ Truthy(textPartId))
  /\ pc' = "html"
  /\ UNCHANGED <<treeVars, cancel, mailbox, includeParts, fetchQuery, requests, emailsList, idx,
                 item_json, textPartId, htmlPartId, cur, stream, returnData, outcome>>

\* IssueHtmlDownload without the await of line 228: the HTML download is issued
\* while the text stream is still being read
IssueHtmlDownloadUnawaited ==
  /\ pc = "html" \/ (pc = "stream" /\ cur = "textContent")
  /\ "htmlContent" \in includeParts /\ Truthy(htmlPartId)
  /\ requests' = Append(requests, DownloadRequest("htmlContent", htmlPartId))
  /\ cur' = "htmlContent"
  /\ pc' = "download"
  /\ UNCHANGED <<treeVars, cancel, mailbox, includeParts, fetchQuery, emailsList, idx,
                 item_json, textPartId, htmlPartId, stream, returnData, outcome>>

\* the HTML branch downloading the text part a second time
IssueHtmlDownloadOfTextPart ==
  /\ pc = "html"
  /\ "htmlContent" \in includeParts /\ Truthy(htmlPartId)
  /\ requests' = Append(requests, DownloadRequest("textContent", textPartId))
  /\ cur' = "htmlContent"
  /\ pc' = "download"
  /\ UNCHANGED <<treeVars, cancel, mailbox, includeParts, fetchQuery, emailsList, idx,
                 item_json, textPartId, htmlPartId, stream, returnData, outcome>>

\* lines 230-234
IssueHtmlDownload ==
  /\ pc = "html"
  /\ "htmlContent" \in includeParts /\ Truthy(htmlPartId)
  /\ requests' = Append(requests, DownloadRequest("htmlContent", htmlPartId))
  /\ cur' = "htmlContent"
  /\ pc' = "download"
  /\ UNCHANGED <<treeVars, cancel, mailbox, includeParts, fetchQuery, emailsList, idx,
                 item_json, textPartId, htmlPartId, stream, returnData, outcome>>

\* line 230 false
SkipHtml ==
  /\ pc = "html"
  /\ ~("htmlContent" \in includeParts /\ Truthy(htmlPartId))
  /\ pc' = "push"
  /\ UNCHANGED <<treeVars, cancel, mailbox, includeParts, fetchQuery, requests, emailsList, idx,
                 item_json, textPartId, htmlPartId, cur, stream, returnData, outcome>>

\* lines 225-228, 232-235: client.download resolves with the part's stream and
\* streamToString attaches its handlers
DownloadResolves ==
  /\ pc = "download"
  /\ stream' = [source |-> DownloadSource(LastRequest.range, LastRequest.part,
                                          LastRequest.byUid),
                sent |-> 0, chunks |-> <<>>, closed |-> FALSE]
  /\ mailbox' = MailStoreAfterDownload(LastRequest.range, LastRequest.byUid)
  /\ pc' = "stream"
  /\ UNCHANGED <<treeVars, cancel, includeParts, fetchQuery, requests, emailsList, idx,
                 item_json, textPartId, htmlPartId, cur, returnData, outcome>>

\* client.download rejects
DownloadFails ==
  /\ pc = "download"
  /\ \E e \in Errors : Fail(e)

\* lines 30-32: a 'data' event with the next bytes of the part
StreamData ==
  /\ pc = "stream"
  /\ ~stream.closed
  /\ \E n \in 1..MaxChunk :
       /\ stream.sent + n <= Len(stream.source)
       /\ stream' = [stream EXCEPT
                       !.sent = @ + n,
                       !.chunks = Append(@, SubSeq(stream.source, stream.sent + 1,
                                                   stream.sent + n))]
  /\ UNCHANGED <<treeVars, cancel, mailbox, includeParts, pc, fetchQuery, requests, emailsList,
                 idx, item_json, textPartId, htmlPartId, cur, returnData, outcome>>

\* lines 33-35 and 228 / 235: 'end' resolves the promise, the text is stored
StreamEnd ==
  /\ pc = "stream"
  /\ ~stream.closed
  /\ stream.sent = Len(stream.source)
  /\ item_json' = (cur :> streamToString(stream.chunks)) @@ item_json
  /\ requests' = Settle("done", "none")
  /\ pc' = IF cur = "textContent" THEN "html" ELSE "push"
  /\ cur' = "none"
  /\ stream' = <<>>
  /\ UNCHANGED <<treeVars, cancel, mailbox, includeParts, fetchQuery, emailsList, idx,
                 textPartId, htmlPartId, returnData, outcome>>

\* line 36: 'error' rejects the promise
StreamError ==
  /\ pc = "stream"
  /\ ~stream.closed
  /\ \E e \in Errors : Fail(e)

\* the stream stalls for good, or is closed without 'end' or 'error' (a 'close'
\* event alone): streamToString has no handler for it (lines 30-36), its promise
\* stays pending and executeImapAction stays at the await of line 228 / 235
StreamCloses ==
  /\ pc = "stream"
  /\ ~stream.closed
  /\ stream' = [stream EXCEPT !.closed = TRUE]
  /\ UNCHANGED <<treeVars, cancel, mailbox, includeParts, pc, fetchQuery, requests, emailsList,
                 idx, item_json, textPartId, htmlPartId, cur, returnData, outcome>>

\* PushRecord putting the record in front of the list
PushRecordInFront ==
  /\ pc = "push"
  /\ returnData' = <<[json |-> item_json]>> \o returnData
  /\ idx' = idx + 1
  /\ pc' = "loop"
  /\ UNCHANGED <<treeVars, cancel, mailbox, includeParts, fetchQuery, requests, emailsList,
                 item_json, textPartId, htmlPartId, cur, stream, outcome>>

\* lines 239-242
PushRecord ==
  /\ pc = "push"
  /\ returnData' = Append(returnData, [json |-> item_json])
  /\ idx' = idx + 1
  /\ pc' = "loop"
  /\ UNCHANGED <<treeVars, cancel, mailbox, includeParts, fetchQuery, requests, emailsList,
                 item_json, textPartId, htmlPartId, cur, stream, outcome>>

\* Return handing back one empty item when no message was found
ReturnEmptyItemWhenNone ==
  /\ pc = "loop"
  /\ idx > Len(emailsList)
  /\ outcome' = [state |-> "returned",
                 value |-> IF returnData = <<>> THEN <<[json |-> <<>>]>> ELSE returnData]
  /\ pc' = "done"
  /\ UNCHANGED <<treeVars, cancel, mailbox, includeParts, fetchQuery, requests, emailsList, idx,
                 item_json, textPartId, htmlPartId, cur, stream, returnData>>

\* line 244
Return ==
  /\ pc = "loop"
  /\ idx > Len(emailsList)
  /\ outcome' = [state |-> "returned", value |-> returnData]
  /\ pc' = "done"
  /\ UNCHANGED <<treeVars, cancel, mailbox, includeParts, fetchQuery, requests, emailsList, idx,
                 item_json, textPartId, htmlPartId, cur, stream, returnData>>

Init == ListInit

Next ==
  \/ MailboxOpen
  \/ MailboxOpenFails
  \/ StartFetch
  \/ FetchYield
  \/ FetchFails
  \/ FetchEnds
  \/ BeginEmail
  \/ IssueTextDownload
  \/ SkipText
  \/ IssueHtmlDownload
  \/ SkipHtml
  \/ DownloadResolves
  \/ DownloadFails
  \/ StreamData
  \/ StreamEnd
  \/ StreamError
  \/ StreamCloses
  \/ PushRecord
  \/ Return

Spec == Init /\ [][Next]_vars

(***************************************************************************)
(* The listing under a host that may cancel the execution                  *)
(***************************************************************************)
\* the iterations of the loop of line 168 that have begun
IterationsBegun ==
  IF pc \in {"text", "html", "download", "stream", "push"} THEN idx
  ELSE IF pc = "loop" THEN idx - 1
  ELSE 0

\* the host asks the running execution to stop; no line of executeImapAction reads
\* the request, so every variable of the listing is left as it is
RequestCancel ==
  /\ outcome.state = "running"
  /\ ~cancel.requested
  /\ cancel' = [requested |-> TRUE, begun |-> IterationsBegun]
  /\ UNCHANGED <<treeVars, mailbox, includeParts, pc, fetchQuery, requests, emailsList,
                 idx, item_json, textPartId, htmlPartId, cur, stream, returnData,
                 outcome>>

CancelNext == Next \/ RequestCancel

CancelSpec == Init /\ [][CancelNext]_vars

(***************************************************************************)
(* Claims about the listing                                                *)
(***************************************************************************)
SeqRange(s) == { s[k] : k \in DOMAIN s }
RequestsOf(kind) == { k \in DOMAIN requests : requests[k].kind = kind }
InFlight == { k \in DOMAIN requests : requests[k].status = "inflight" }
Uids(list) == [k \in DOMAIN list |-> list[k]["uid"]]

\* C1: no part download is issued before the bulk fetch has been consumed to its
\* end: whenever a download is on the request log, the fetch has completed and every
\* message it yields is in emailsList, in order.
C1_DrainBeforeDownload ==
  RequestsOf("download") # {} =>
    /\ \A k \in RequestsOf("fetch") : requests[k].status = "done"
    /\ Uids(emailsList) = Uids(mailbox)

\* the first download of a listing of two or more messages has just been issued
C1_Witness ==
  /\ Cardinality(RequestsOf("download")) = 1
  /\ LastRequest.status = "inflight"
  /\ LastRequest.msg = 1
  /\ Len(emailsList) >= 2

\* the text a completed download produced is stored in the record of its message
Materialized(r) ==
  IF r.msg <= Len(returnData)
  THEN r.content \in DOMAIN returnData[r.msg].json
  ELSE r.msg = idx /\ r.content \in DOMAIN item_json

\* C2: at most one request is in flight on the connection; every request but the
\* latest has completed, and every download but the latest has had its stream read
\* to the end and its text stored before the next request was issued.
C2_OneRequestInFlight ==
  /\ Cardinality(InFlight) <= 1
  /\ \A k \in DOMAIN requests :
       k < Len(requests) =>
         /\ requests[k].status = "done"
         /\ requests[k].kind = "download" => Materialized(requests[k])

\* the HTML download of a message is in flight after its text download completed
C2_Witness ==
  /\ pc = "stream"
  /\ cur = "htmlContent"
  /\ LastRequest.status = "inflight"
  /\ "textContent" \in DOMAIN item_json
  /\ requests[Len(requests) - 1].kind = "download"
  /\ requests[Len(requests) - 1].msg = idx

\* C3: once a request has failed, the listing has ended rejected with that request's
\* error, nothing is returned, and the failed request is the last one issued.
C3_FailureAborts ==
  \A k \in DOMAIN requests :
    requests[k].status = "failed" =>
      /\ pc = "failed"
      /\ outcome.state = "rejected"
      /\ outcome.error = requests[k].error
      /\ DOMAIN outcome = {"state", "error"}
      /\ k = Len(requests)

\* the text download of the second message failed with one record assembled and
\* the HTML download of that message still to come
C3_Witness ==
  /\ pc = "failed"
  /\ LastRequest.kind = "download"
  /\ LastRequest.status = "failed"
  /\ LastRequest.content = "textContent"
  /\ idx = 2
  /\ Len(returnData) = 1
  /\ "htmlContent" \in includeParts
  /\ Truthy(htmlPartId)

\* C4: on success the returned sequence has one record per message the fetch
\* yielded, the i-th record carrying the uid of the i-th message.
C4_OneRecordPerMessageInOrder ==
  outcome.state = "returned" =>
    /\ Len(outcome.value) = Len(mailbox)
    /\ \A k \in DOMAIN outcome.value : outcome.value[k].json["uid"] = mailbox[k].uid

\* a listing of two messages has returned
C4_Witness ==
  /\ outcome.state = "returned"
  /\ Len(outcome.value) >= 2
  /\ outcome.value[1].json["uid"] # outcome.value[2].json["uid"]

\* the query of the bulk fetch, once it has been issued
FetchIssued == RequestsOf("fetch") # {}
QueryOfFetch == requests[CHOOSE k \in RequestsOf("fetch") : TRUE].query

\* C5 as claimed: with none of attachmentsInfo, textContent, htmlContent selected
\* there is never a part download and the fetch query does not ask for bodyStructure.
C5_NoStructureWithoutContent ==
  includeParts \cap ContentParts = {} =>
    /\ RequestsOf("download") = {}
    /\ FetchIssued => "bodyStructure" \notin QueryOfFetch

\* C5 amended: with none of attachmentsInfo, textContent, htmlContent selected there
\* is never a part download, and the fetch query asks for bodyStructure exactly when
\* the bodyStructure flag itself is selected.
C5_StructureOnlyOnItsOwnFlag ==
  includeParts \cap ContentParts = {} =>
    /\ RequestsOf("download") = {}
    /\ FetchIssued => ("bodyStructure" \in QueryOfFetch <=> "bodyStructure" \in includeParts)

\* a listing with only flags and size selected has returned the record of a message
\* that has a text part
C5_Witness ==
  /\ includeParts = {"flags", "size"}
  /\ outcome.state = "returned"
  /\ Len(returnData) >= 1
  /\ mailbox[1].bodyStructure.type = "text/plain"
  /\ "bodyStructure" \notin QueryOfFetch

\* C6: the fetch query always asks for uid and envelope, and asks for bodyStructure
\* whenever attachmentsInfo, textContent or htmlContent is selected.
C6_QueryFields ==
  FetchIssued =>
    /\ {"uid", "envelope"} \subseteq QueryOfFetch
    /\ includeParts \cap ContentParts # {} => "bodyStructure" \in QueryOfFetch

\* the fetch was issued with htmlContent alone selected
C6_Witness ==
  /\ FetchIssued
  /\ includeParts = {"htmlContent"}
  /\ QueryOfFetch = {"uid", "envelope", "bodyStructure"}

\* what the classification finds for message number k of the mailbox
FoundAt(k) == AnalyzeBodyStructure(mailbox[k].bodyStructure)
\* v is null, for v of any kind (a string, a list of code points, a list of records)
IsNullPlaceholder(v) == ToString(v) = ToString(null)
Returned == outcome.state = "returned"

\* C11: every returned record carries attachmentsInfo exactly when it was requested,
\* textContent only if textContent was requested and a text part id was found,
\* htmlContent only if htmlContent was requested and an HTML part id was found, and
\* none of the three is ever a null placeholder.
C11_DerivedFieldsOnlyOnRequest ==
  Returned =>
    \A k \in DOMAIN outcome.value :
      LET json == outcome.value[k].json
      IN /\ "attachmentsInfo" \in DOMAIN json <=> "attachmentsInfo" \in includeParts
         /\ "textContent" \in DOMAIN json =>
              "textContent" \in includeParts /\ Truthy(FoundAt(k).textPartId)
         /\ "htmlContent" \in DOMAIN json =>
              "htmlContent" \in includeParts /\ Truthy(FoundAt(k).htmlPartId)
         /\ \A f \in ContentParts \cap DOMAIN json : ~IsNullPlaceholder(json[f])

\* all three requested: a text-only message and a message without text or HTML
\* part have been returned, the first with textContent only, the second with neither
C11_Witness ==
  /\ Returned
  /\ ContentParts \subseteq includeParts
  /\ Len(outcome.value) = 2
  /\ DOMAIN outcome.value[1].json \cap ContentParts = {"attachmentsInfo", "textContent"}
  /\ DOMAIN outcome.value[2].json \cap ContentParts = {"attachmentsInfo"}

\* C12: a listing never waits forever: as long as it has not ended it can take a
\* step, and a download whose stream stalled or closed without 'end' or 'error' has
\* made the listing fail.
C12_NeverWaitsForever ==
  /\ outcome.state = "running" => ENABLED Next
  /\ (pc = "stream" /\ stream.closed) => outcome.state = "rejected"

\* the bytes the mail store streams for a download request
SourceOf(r) == DownloadSource(r.range, r.part, r.byUid)
TextFields == {"textContent", "htmlContent"}

\* the bytes are well-formed UTF-8 (one- and two-byte sequences)
RECURSIVE ValidUtf8(_)
ValidUtf8(b) ==
  IF b = <<>> THEN TRUE
  ELSE IF b[1] < 128 THEN ValidUtf8(Tail(b))
  ELSE /\ b[1] \in 194..223
       /\ Len(b) >= 2
       /\ b[2] \in 128..191
       /\ ValidUtf8(SubSeq(b, 3, Len(b)))

\* C13: a part whose bytes are not valid UTF-8 makes its download fail, so no
\* download of such a part ever completes, and no returned record holds text with
\* a substitute character (U+FFFD) in it.
C13_InvalidBytesAbort ==
  /\ \A k \in RequestsOf("download") :
       requests[k].status = "done" => ValidUtf8(SourceOf(requests[k]))
  /\ Returned =>
       \A k \in DOMAIN outcome.value :
         \A f \in TextFields \cap DOMAIN outcome.value[k].json :
           65533 \notin SeqRange(outcome.value[k].json[f])

\* the positions of executeImapAction inside the per-message loop body
InLoopBody == pc \in {"text", "html", "download", "stream", "push"}

\* C14: when the bulk fetch yields no message, the loop body is never entered (no
\* clone, no classification, no walker call, no download) and the listing returns
\* the empty sequence.
C14_NoMessagesNoSteps ==
  Len(mailbox) = 0 =>
    /\ ~InLoopBody
    /\ item_json = <<>> /\ textPartId = null /\ htmlPartId = null
    /\ RequestsOf("download") = {}
    /\ returnData = <<>>
    /\ Returned => outcome.value = <<>>

\* a listing of an empty mailbox with every part selected has returned
C14_Witness ==
  /\ Len(mailbox) = 0
  /\ includeParts = EmailParts
  /\ Returned
  /\ Len(requests) = 2

\* the text stored for a completed download
TextOf(r) ==
  IF r.msg <= Len(returnData)
  THEN returnData[r.msg].json[r.content] ELSE item_json[r.content]

\* C15: the chunks held while a stream is read are, joined in arrival order, the
\* bytes delivered so far; the text stored for a completed download is the UTF-8
\* text of all the bytes of its stream; and a listing that returns has no download
\* whose stream failed or closed early, so no record holds a truncated text.
C15_TextIsWholeStream ==
  /\ pc = "stream" =>
       BufferConcat(stream.chunks) = SubSeq(stream.source, 1, stream.sent)
  /\ \A k \in RequestsOf("download") :
       requests[k].status = "done" =>
         TextOf(requests[k]) = Utf8Decode(SourceOf(requests[k]))
  /\ Returned =>
       /\ \A k \in RequestsOf("download") : requests[k].status = "done"
       /\ \A k \in DOMAIN outcome.value :
            /\ "textContent" \in DOMAIN outcome.value[k].json =>
                 outcome.value[k].json["textContent"] =
                   Utf8Decode(mailbox[k].bodies[FoundAt(k).textPartId])
            /\ "htmlContent" \in DOMAIN outcome.value[k].json =>
                 outcome.value[k].json["htmlContent"] =
                   Utf8Decode(mailbox[k].bodies[FoundAt(k).htmlPartId])

\* a text whose two-byte character arrived split over two chunks has been stored
C15_Witness ==
  /\ pc = "html"
  /\ Len(requests) >= 3
  /\ LastRequest.status = "done"
  /\ SourceOf(LastRequest) = <<49, 195, 169>>
  /\ item_json["textContent"] = <<49, 233>>

\* the part id classification returns for message k under a content flag
ClassifiedPartId(k, content) ==
  IF content = "textContent" THEN FoundAt(k).textPartId ELSE FoundAt(k).htmlPartId

\* C16: every download in the request log is for the message being processed,
\* addressed by that message's UID in by-UID mode, names the part id that
\* classification returns for that message under the download's content flag,
\* that flag was requested, and the part id is present.
C16_DownloadAddressing ==
  \A k \in RequestsOf("download") :
    LET r == requests[k] IN
      /\ r.msg \in 1..Len(mailbox)
      /\ r.msg <= idx
      /\ (k = Len(requests) /\ pc \in {"download", "stream"}) => r.msg = idx
      /\ r.byUid
      /\ r.range = NatToString(mailbox[r.msg].uid)
      /\ r.range # NatToString(r.msg)
      /\ r.content \in TextFields \cap includeParts
      /\ r.part = ClassifiedPartId(r.msg, r.content)
      /\ Truthy(r.part)

\* the HTML part of the second message, the second child, is being downloaded
C16_Witness ==
  /\ pc = "stream"
  /\ idx = 2
  /\ LastRequest.content = "htmlContent"
  /\ LastRequest.part = "2"
  /\ LastRequest.range = NatToString(UidAt(2))
  /\ "textContent" \notin includeParts

\* the first request of the listing opened the mailbox read-only and has resolved
OpenedReadOnly ==
  /\ Len(requests) >= 1
  /\ requests[1].kind = "mailboxOpen"
  /\ requests[1].readOnly
  /\ requests[1].status = "done"

\* C17: whenever the bulk fetch or a download is on the request log, the mailbox
\* has been opened before it, exactly once, in read-only mode; and no step of the
\* listing changes the mailbox: its messages and their flags stay what they were.
C17_ReadOnlyNoMutation ==
  /\ [](/\ RequestsOf("fetch") \cup RequestsOf("download") # {} => OpenedReadOnly
        /\ RequestsOf("mailboxOpen") \subseteq {1})
  /\ [][mailbox' = mailbox]_vars

\* a listing that downloaded a part of a message not read before has returned
C17_Witness ==
  /\ Returned
  /\ OpenedReadOnly
  /\ \E k \in RequestsOf("download") :
       /\ requests[k].msg = 1
       /\ "\\Seen" \notin mailbox[1].flags

\* C18: once the host has requested cancellation, no download is on the request
\* log for a message whose iteration had not begun when the request was made.
C18_CancelStopsLaterDownloads ==
  cancel.requested =>
    \A k \in RequestsOf("download") : requests[k].msg <= cancel.begun

RawFields == {"flags", "size", "bodyStructure"}

\* C19 as stated: a record, returned or assembled so far, carries each of flags,
\* size and bodyStructure only if that field's own flag was selected.
C19_RawFieldsOnlyOnOwnFlag ==
  \A k \in DOMAIN returnData :
    \A f \in RawFields \cap DOMAIN returnData[k].json : f \in includeParts

\* C19 amended: every record carries uid and envelope; flags exactly when flags was
\* selected and size exactly when size was selected, the size being the message's;
\* and bodyStructure exactly when bodyStructure, attachmentsInfo, textContent or
\* htmlContent was selected, the structure being the one the message has.
C19_RawFieldsFollowQuery ==
  \A k \in DOMAIN returnData :
    LET json == returnData[k].json
    IN /\ {"uid", "envelope"} \subseteq DOMAIN json
       /\ "flags" \in DOMAIN json <=> "flags" \in includeParts
       /\ "size" \in DOMAIN json <=> "size" \in includeParts
       /\ "size" \in DOMAIN json => json["size"] = mailbox[k].size
       /\ "bodyStructure" \in DOMAIN json <=>
            includeParts \cap ({"bodyStructure"} \cup ContentParts) # {}
       /\ "bodyStructure" \in DOMAIN json =>
            json["bodyStructure"] = mailbox[k].bodyStructure

\* a listing with textContent alone selected has returned a record that carries the
\* body structure and the text
C19_Witness ==
  /\ Returned
  /\ includeParts = {"textContent"}
  /\ Len(outcome.value) >= 1
  /\ DOMAIN outcome.value[1].json =
       {"seq", "uid", "envelope", "bodyStructure", "textContent"}

\* C20: the request log, which is in issue order, has the downloads in message
\* order; two downloads of one message are its text download followed by its HTML
\* download, so each message has at most one of either; every download before the
\* latest has completed, with its text stored, which makes each download complete
\* before the next one starts; and there are never more than two downloads per
\* message whose iteration has begun, hence no more than twice the buffered messages.
C20_DownloadsFollowMessageOrder ==
  /\ \A i, j \in RequestsOf("download") :
       i < j =>
         /\ requests[i].msg <= requests[j].msg
         /\ requests[i].status = "done" /\ Materialized(requests[i])
         /\ requests[i].msg = requests[j].msg =>
              /\ requests[i].content = "textContent"
              /\ requests[j].content = "htmlContent"
  /\ \A k \in RequestsOf("download") : requests[k].msg \in 1..idx
  /\ Cardinality(RequestsOf("download")) <= 2 * idx
  /\ Cardinality(RequestsOf("download")) <= 2 * Len(emailsList)

\* a listing of two messages has returned after four downloads
C20_Witness ==
  /\ Returned
  /\ Len(emailsList) = 2
  /\ Len(requests) = 6
  /\ [k \in 3..6 |-> <<requests[k].msg, requests[k].content>>] =
       [k \in 3..6 |-> <<(k - 1) \div 2, IF k % 2 = 1 THEN "textContent" ELSE "htmlContent">>]

(***************************************************************************)
(* Reference notions for the tree claims                                   *)
(***************************************************************************)
\* the nodes of a tree in depth-first pre-order, children in their given order
RECURSIVE PreOrder(_), PreOrderFrom(_, _)
PreOrder(n) == <<n>> \o PreOrderFrom(n.childNodes, 1)
PreOrderFrom(kids, k) ==
  IF k > Len(kids) THEN <<>> ELSE PreOrder(kids[k]) \o PreOrderFrom(kids, k + 1)

PartIds(parts) == [k \in DOMAIN parts |-> parts[k]["partId"]]
NodeParts(nodes) == [k \in DOMAIN nodes |-> nodes[k].part]
IsLeaf(n) == Len(n.childNodes) = 0
Walked == tpc = "walked"
Classified == tpc = "classified"
\* the nodes below the root
Descendants(root) == Tail(PreOrder(root))

\* C7 as claimed: the walker's output has exactly as many entries as the tree has
\* nodes with no children and a defined size, and no node with children is emitted.
C7_LeavesOnly ==
  Walked =>
    /\ Len(partsInfo) =
         Len(SelectSeq(PreOrder(bodyStructure), LAMBDA n : IsLeaf(n) /\ n.hasSize))
    /\ \A n \in SeqRange(PreOrder(bodyStructure)) :
         ~IsLeaf(n) => n.part \notin SeqRange(PartIds(partsInfo))

\* C7 amended: the walker's output has exactly as many entries as the tree has
\* nodes below the root with a defined size; the root is never emitted, and a node
\* below the root is emitted exactly when it has a size, children or not.
C7_SizedDescendants ==
  Walked =>
    /\ Len(partsInfo) =
         Len(SelectSeq(Descendants(bodyStructure), LAMBDA n : n.hasSize))
    /\ bodyStructure.part \notin SeqRange(PartIds(partsInfo))
    /\ \A n \in SeqRange(Descendants(bodyStructure)) :
         n.part \in SeqRange(PartIds(partsInfo)) <=> n.hasSize

\* a walk that emitted a node with children next to a child without size it skipped
C7_Witness ==
  /\ Walked
  /\ \E n \in SeqRange(Descendants(bodyStructure)) :
       /\ ~IsLeaf(n) /\ n.hasSize
       /\ n.part \in SeqRange(PartIds(partsInfo))
       /\ \E c \in SeqRange(n.childNodes) :
            ~c.hasSize /\ c.part \notin SeqRange(PartIds(partsInfo))

\* C8: the part ids the walker emits are the depth-first pre-order sequence of the
\* tree's part ids (children in their given order) restricted to the emitted nodes:
\* nothing reordered, nothing duplicated.
C8_PreOrder ==
  Walked =>
    PartIds(partsInfo) =
      SelectSeq(NodeParts(PreOrder(bodyStructure)),
                LAMBDA p : p \in SeqRange(PartIds(partsInfo)))

\* a walk that emitted a node and, after it, a node of its own subtree
C8_Witness ==
  /\ Walked
  /\ Len(partsInfo) >= 2
  /\ \E n \in SeqRange(Descendants(bodyStructure)) :
       /\ ~IsLeaf(n)
       /\ partsInfo[1]["partId"] = n.part
       /\ partsInfo[2]["partId"] = n.childNodes[1].part

\* the index of the last non-attachment entry of the given type, 0 if none
LastMatch(parts, type) ==
  LET hits == { k \in DOMAIN parts : ~IsAttachment(parts[k]) /\ parts[k]["type"] = type }
  IN IF hits = {} THEN 0 ELSE CHOOSE k \in hits : \A j \in hits : j <= k
PartIdAt(parts, k) == IF k = 0 THEN null ELSE parts[k]["partId"]

\* C9: for a multipart root the classification yields the attachment-disposition
\* leaves of the walker's list, in order, each with partId, filename, type, encoding
\* and size; textPartId / htmlPartId are the part ids of the last non-attachment
\* leaf of type text/plain / text/html (null if none); an attachment is never chosen.
C9_Classification ==
  (Classified /\ bodyStructure # NoBodyStructure /\ ~IsLeaf(bodyStructure)) =>
    LET leaves == getEmailPartsInfoRecursive(bodyStructure)
        atts == SelectSeq(leaves, IsAttachment)
    IN /\ Len(analysis.attachmentsInfo) = Len(atts)
       /\ \A k \in DOMAIN atts :
            /\ analysis.attachmentsInfo[k].partId = atts[k]["partId"]
            /\ analysis.attachmentsInfo[k].filename = atts[k]["filename"]
            /\ analysis.attachmentsInfo[k].type = atts[k]["type"]
            /\ analysis.attachmentsInfo[k].encoding = atts[k]["encoding"]
            /\ analysis.attachmentsInfo[k].size = atts[k]["size"]
       /\ analysis.textPartId = PartIdAt(leaves, LastMatch(leaves, "text/plain"))
       /\ analysis.htmlPartId = PartIdAt(leaves, LastMatch(leaves, "text/html"))
       /\ \A k \in DOMAIN atts :
            atts[k]["partId"] \notin {analysis.textPartId, analysis.htmlPartId}

\* a multipart message with two text/plain leaves, the first one an attachment's
\* sibling: the later plain leaf is chosen and the attachment is listed
C9_Witness ==
  /\ Classified
  /\ bodyStructure # NoBodyStructure
  /\ Len(bodyStructure.childNodes) = 2
  /\ bodyStructure.childNodes[1].type = "text/plain"
  /\ bodyStructure.childNodes[1].disposition = "attachment"
  /\ bodyStructure.childNodes[2].type = "text/plain"
  /\ analysis.textPartId = "2"
  /\ Len(analysis.attachmentsInfo) = 1

\* C10: for a root with no children the walker is not called, textPartId is "TEXT"
\* exactly when the root type is text/plain, htmlPartId is "TEXT" exactly when it is
\* text/html, both are null otherwise and there are no attachments; for an absent
\* root both are null and there are no attachments.
C10_SinglePart ==
  Classified =>
    /\ (bodyStructure # NoBodyStructure /\ IsLeaf(bodyStructure)) =>
         /\ analysis.walkerCalls = 0
         /\ analysis.textPartId =
              (IF bodyStructure.type = "text/plain" THEN "TEXT" ELSE null)
         /\ analysis.htmlPartId =
              (IF bodyStructure.type = "text/html" THEN "TEXT" ELSE null)
         /\ analysis.attachmentsInfo = <<>>
    /\ bodyStructure = NoBodyStructure =>
         /\ analysis.walkerCalls = 0
         /\ analysis.textPartId = null
         /\ analysis.htmlPartId = null
         /\ analysis.attachmentsInfo = <<>>

\* a single-part text/html message marked as an attachment, classified
C10_Witness ==
  /\ Classified
  /\ bodyStructure # NoBodyStructure
  /\ IsLeaf(bodyStructure)
  /\ bodyStructure.type = "text/html"
  /\ bodyStructure.disposition = "attachment"
  /\ analysis.htmlPartId = "TEXT"
  /\ analysis.textPartId = null

====
